---- MODULE Spec2Model ----
(***************************************************************************)
(* A model of app.py, the Streamlit page "AI vs Human Text Detection".     *)
(*                                                                         *)
(* Python floats are IEEE-754 binary64.  Every float the model handles is  *)
(* a multiple of 2^-57 in [0, 1 + 2^-52], written as a pair <<hi, lo>>     *)
(* standing for the exact value (hi * 2^28 + lo) * 2^-57.  Sums and        *)
(* differences are computed exactly on the pairs and then rounded to the   *)
(* nearest binary64 value, ties to even, as the hardware does.             *)
(***************************************************************************)
EXTENDS Integers, Sequences, FiniteSets, TLC

(***************************************************************************)
(* Bounds of the model.                                                    *)
(***************************************************************************)
\* Longest run of extra whitespace put before a text and between its words.
MaxPad == 1
\* Number of script runs (user interactions) explored in one process.
MaxRuns == 3

(***************************************************************************)
(* binary64 arithmetic on pairs <<hi, lo>>.                                *)
(***************************************************************************)
Base == 2^28

Lt(a, b) == a[1] < b[1] \/ (a[1] = b[1] /\ a[2] < b[2])

Le(a, b) == ~Lt(b, a)

\* Exact sum.
Add(a, b) ==
    LET lo == a[2] + b[2]
    IN  IF lo >= Base THEN <<a[1] + b[1] + 1, lo - Base>>
                      ELSE <<a[1] + b[1], lo>>

\* Exact difference a - b, for a >= b.
Sub(a, b) ==
    IF a[2] >= b[2] THEN <<a[1] - b[1], a[2] - b[2]>>
                    ELSE <<a[1] - b[1] - 1, a[2] + Base - b[2]>>

\* Spacing of the binary64 values in the binade of a, in units of 2^-57:
\* 2^-52 in [1,2), 2^-53 in [1/2,1), 2^-54 in [1/4,1/2), ...; every multiple
\* of 2^-57 below 2^-4 is a binary64 value.
Ulp(a) ==
    IF a[1] >= 2 * Base THEN 32
    ELSE IF a[1] >= Base THEN 16
    ELSE IF a[1] >= Base \div 2 THEN 8
    ELSE IF a[1] >= Base \div 4 THEN 4
    ELSE IF a[1] >= Base \div 8 THEN 2
    ELSE 1

\* Round to nearest binary64 value, ties to the even significand.
Round(a) ==
    LET q    == Ulp(a)
        r    == a[2] % q
        down == <<a[1], a[2] - r>>
        up   == Add(down, <<0, q>>)
    IN  IF r = 0 THEN a
        ELSE IF 2 * r < q THEN down
        ELSE IF 2 * r > q THEN up
        ELSE IF (a[2] \div q) % 2 = 0 THEN down
        ELSE up

\* Python's a + b on non-negative floats.
FAdd(a, b) == Round(Add(a, b))

\* Python's a - b: a sign and a magnitude.
FSub(a, b) ==
    IF Lt(a, b) THEN [neg |-> TRUE,  mag |-> Round(Sub(b, a))]
                ELSE [neg |-> FALSE, mag |-> Round(Sub(a, b))]

\* Python's abs(x).
FAbs(x) == x.mag

\* The float literals of the program, as binary64 values.
Zero == <<0, 0>>
One == <<2 * Base, 0>>                 \* 1     = 0x1.0000000000000p+0
Half == <<Base, 0>>                    \* 0.5   = 0x1.0000000000000p-1
Lit010 == <<53687091, 53687092>>       \* 0.1   = 0x1.999999999999ap-4
Lit015 == <<80530636, 214748364>>      \* 0.15  = 0x1.3333333333333p-3
Lit020 == <<107374182, 107374184>>     \* 0.2   = 0x1.999999999999ap-3

(***************************************************************************)
(* Texts: sequences of characters.                                         *)
(***************************************************************************)
IsSpace(c) == c \in {" ", "\n", "\t"}

\* k whitespace characters, alternating blank and newline.
Blanks(k) == [i \in 1..k |-> IF i % 2 = 1 THEN " " ELSE "\n"]

\* n two-letter words, pad whitespace characters in front, 1 + pad between
\* and after the words.
MkText(n, pad) ==
    LET w == 3 + pad
    IN  Blanks(pad) \o
        [i \in 1..(n * w) |->
            IF (i - 1) % w < 2 THEN "x"
            ELSE IF ((i - 1) % w) % 2 = 0 THEN " " ELSE "\n"]

WordCounts == {0, 1, 99, 100, 150, 199, 200, 250}

Texts == {MkText(n, pad) : n \in WordCounts, pad \in 0..MaxPad}

\* The branch without .strip(): any character counts as text.
NonEmptyNoStrip(text) == Len(text) > 0

\* text.strip() != "": some character is not whitespace.
StripNonEmpty(text) == \E i \in 1..Len(text) : ~IsSpace(text[i])

\* len(text.split()): str.split() with no separator cuts the text at runs of
\* whitespace and drops empty pieces, so the pieces are the maximal runs of
\* non-whitespace characters; each is counted at its first character.
WordStarts(text) ==
    {i \in 1..Len(text) : ~IsSpace(text[i]) /\ (i = 1 \/ IsSpace(text[i - 1]))}

SplitCount(text) == Cardinality(WordStarts(text))

(***************************************************************************)
(* Inputs: the probabilities a classifier may return and the distances d   *)
(* a caller may put around 0.5, as the binary64 values of their decimal    *)
(* literals.                                                               *)
(***************************************************************************)
UpperProbs ==
    { <<268435456, 0>>,           \* 0.5  = 0x1.0000000000000p-1
      <<295279001, 161061280>>,   \* 0.55 = 0x1.199999999999ap-1
      <<322122547, 53687088>>,    \* 0.6  = 0x1.3333333333333p-1
      <<332859965, 118111600>>,   \* 0.62 = 0x1.3d70a3d70a3d7p-1
      <<348966092, 214748368>>,   \* 0.65 = 0x1.4cccccccccccdp-1
      <<375809638, 107374176>>,   \* 0.7  = 0x1.6666666666666p-1
      <<402653184, 0>>,           \* 0.75 = 0x1.8000000000000p-1
      <<429496729, 161061280>>,   \* 0.8  = 0x1.999999999999ap-1
      <<510027366, 107374176>>,   \* 0.95 = 0x1.e666666666666p-1
      <<536870912, 0>> }          \* 1.0  = 0x1.0000000000000p+0

LowerProbs ==
    { <<0, 0>>,                   \* 0.0
      <<26843545, 161061274>>,    \* 0.05 = 0x1.999999999999ap-5
      <<134217728, 0>>,           \* 0.25 = 0x1.0000000000000p-2
      <<161061273, 161061272>>,   \* 0.3  = 0x1.3333333333333p-2
      <<187904819, 53687088>>,    \* 0.35 = 0x1.6666666666666p-2
      <<204010946, 150323856>>,   \* 0.38 = 0x1.851eb851eb852p-2
      <<214748364, 214748368>>,   \* 0.4  = 0x1.999999999999ap-2
      <<241591910, 107374184>> }  \* 0.45 = 0x1.ccccccccccccdp-2

\* The literals and the exact mirror images 1 - p of the upper ones (1 - p
\* is a binary64 value for every binary64 p in [0.5, 1]).
Probs == UpperProbs \cup LowerProbs \cup {Sub(<<2 * Base, 0>>, p) : p \in UpperProbs}

\* The second argument of a second call.
PairProbs ==
    { <<0, 0>>, <<161061273, 161061272>>, <<187904819, 53687088>>,
      <<214748364, 214748368>>, <<268435456, 0>>, <<322122547, 53687088>>,
      <<332859965, 118111600>>, <<348966092, 214748368>>,
      <<375809638, 107374176>>, <<402653184, 0>>, <<536870912, 0>>,
      <<134217728, 0>>, Sub(<<2 * Base, 0>>, <<375809638, 107374176>>) }

Distances ==
    { <<0, 0>>,                   \* 0.0
      <<26843545, 161061274>>,    \* 0.05 = 0x1.999999999999ap-5
      <<53687091, 53687092>>,     \* 0.1  = 0x1.999999999999ap-4
      <<64424509, 118111600>>,    \* 0.12 = 0x1.eb851eb851eb8p-4
      <<80530636, 214748364>>,    \* 0.15 = 0x1.3333333333333p-3
      <<107374182, 107374184>>,   \* 0.2  = 0x1.999999999999ap-3
      <<134217728, 0>>,           \* 0.25 = 0x1.0000000000000p-2
      <<161061273, 161061272>>,   \* 0.3  = 0x1.3333333333333p-2
      <<241591910, 107374184>>,   \* 0.45 = 0x1.ccccccccccccdp-2
      <<268435456, 0>> }          \* 0.5  = 0x1.0000000000000p-1

(***************************************************************************)
(* predict_ai_probability                                                  *)
(***************************************************************************)
\* What detector(text)[0] may be: one item per class, the two scores of a
\* softmax, under the label names a text-classification model may carry.
LabelPairs == { <<"AI", "Human">>, <<"Human", "AI">>, <<"Fake", "Real">> }

ModelOutputs ==
    { << [label |-> l[1], score |-> p],
         [label |-> l[2], score |-> FSub(One, p).mag] >> :
      l \in LabelPairs, p \in Probs }

\* scores = {item["label"]: item["score"] for item in outputs}: a later item
\* replaces an earlier one with the same label.
Scores(outputs) ==
    [l \in {outputs[i].label : i \in 1..Len(outputs)} |->
        LET last == CHOOSE i \in 1..Len(outputs) :
                        /\ outputs[i].label = l
                        /\ \A j \in (i + 1)..Len(outputs) : outputs[j].label # l
        IN  outputs[last].score]

\* scores.get("AI", 0.0): the default taken for "not AI" instead of "unknown".
predict_default_zero(outputs) ==
    LET scores == Scores(outputs)
    IN  IF "AI" \in DOMAIN scores THEN scores["AI"] ELSE Zero

\* scores.get("AI", 0.5)
predict_ai_probability(outputs) ==
    LET scores == Scores(outputs)
    IN  IF "AI" \in DOMAIN scores THEN scores["AI"] ELSE Half

(***************************************************************************)
(* estimate_confidence                                                     *)
(***************************************************************************)
ShortWords == 100
MediumWords == 200

Low == "Low Confidence"
Medium == "Medium Confidence"
High == "High Confidence"

IndShort == "Short text length (<100 words)"
IndNear == "Prediction near 50%"
IndLowMargin == "Low prediction margin"

\* margin = ai_prob - 0.5 without abs(): a negative margin is below every
\* threshold, as the margin 0 is.
MarginNoAbs(ai_prob) ==
    IF FSub(ai_prob, Half).neg THEN Zero ELSE FSub(ai_prob, Half).mag

\* margin = abs(ai_prob - 0.5)
Margin(ai_prob) == FAbs(FSub(ai_prob, Half))

\* "Low prediction margin" computed with the tier threshold 0.2.
IndicatorsTierThreshold(word_count, margin) ==
    [k \in {IndShort, IndNear, IndLowMargin} |->
        CASE k = IndShort     -> word_count < ShortWords
          [] k = IndNear      -> Lt(margin, Lit010)
          [] k = IndLowMargin -> Lt(margin, Lit020)]

\* "Prediction near 50%" computed with the threshold 0.15.
IndicatorsNearWide(word_count, margin) ==
    [k \in {IndShort, IndNear, IndLowMargin} |->
        CASE k = IndShort     -> word_count < ShortWords
          [] k = IndNear      -> Lt(margin, Lit015)
          [] k = IndLowMargin -> Lt(margin, Lit015)]

Indicators(word_count, margin) ==
    [k \in {IndShort, IndNear, IndLowMargin} |->
        CASE k = IndShort     -> word_count < ShortWords
          [] k = IndNear      -> Lt(margin, Lit010)
          [] k = IndLowMargin -> Lt(margin, Lit015)]

\* The Medium branch with margin <= 0.2.
ConfidenceInclusive(word_count, margin) ==
    IF word_count < ShortWords \/ Lt(margin, Lit010) THEN Low
    ELSE IF word_count < MediumWords \/ Le(margin, Lit020) THEN Medium
    ELSE High

\* The Medium branch with the margin comparison turned round.
ConfidenceFlipped(word_count, margin) ==
    IF word_count < ShortWords \/ Lt(margin, Lit010) THEN Low
    ELSE IF word_count < MediumWords \/ Lt(Lit020, margin) THEN Medium
    ELSE High

Confidence(word_count, margin) ==
    IF word_count < ShortWords \/ Lt(margin, Lit010) THEN Low
    ELSE IF word_count < MediumWords \/ Lt(margin, Lit020) THEN Medium
    ELSE High

estimate_confidence(text, ai_prob) ==
    LET word_count == SplitCount(text)
        margin     == Margin(ai_prob)
    IN  [confidence |-> Confidence(word_count, margin),
         indicators |-> Indicators(word_count, margin),
         word_count |-> word_count,
         margin     |-> margin]

(***************************************************************************)
(* State.                                                                  *)
(***************************************************************************)
VARIABLES
    \* the process: the st.cache_resource store and the number of times the
    \* body of load_detector has built a pipeline
    cache, loads,
    \* the script run in progress (a Streamlit session reruns the script from
    \* the top on every interaction)
    runs, pc, detector, user_text, analyze_btn,
    outputs, ai_prob, human_prob, result, calls,
    \* what the run has put on the page
    shown, sidebar, chart, error,
    \* direct calls of estimate_confidence
    fpc, textA, probA, retA, textB, probB, retB

pagevars == <<cache, loads, runs, pc, detector, user_text, analyze_btn,
              outputs, ai_prob, human_prob, result, calls, shown, sidebar, chart, error>>

fnvars == <<fpc, textA, probA, retA, textB, probB, retB>>

vars == <<pagevars, fnvars>>

\* Values of the names a run has not bound yet.
NoInstance == 0
NoFloat == <<>>
NoDiff == [neg |-> FALSE, mag |-> <<>>]
NoResult == [confidence |-> "unbound"]
NoPanel == [empty |-> TRUE]

InitPage ==
    /\ cache = NoInstance /\ loads = 0
    /\ runs = 0 /\ pc = "idle"
    /\ detector = NoInstance /\ user_text = <<>> /\ analyze_btn = FALSE
    /\ outputs = <<>> /\ ai_prob = NoFloat /\ human_prob = NoDiff
    /\ result = NoResult /\ calls = <<>>
    /\ shown = {} /\ sidebar = NoPanel /\ chart = NoPanel /\ error = FALSE

InitFn ==
    /\ fpc = "args"
    /\ retA = NoResult /\ textB = <<>> /\ probB = NoFloat /\ retB = NoResult

(***************************************************************************)
(* The page script, one run per interaction.                               *)
(***************************************************************************)
\* An interaction starts a run: the first run of a session has the empty
\* text area and the button not pressed; a later one has the text the user
\* left in the text area and the button pressed or not.
Interact(text, btn) ==
    /\ pc = "idle"
    /\ runs < MaxRuns
    /\ runs = 0 => (text = <<>> /\ btn = FALSE)
    /\ runs' = runs + 1
    /\ user_text' = text /\ analyze_btn' = btn
    /\ detector' = NoInstance /\ outputs' = <<>>
    /\ ai_prob' = NoFloat /\ human_prob' = NoDiff
    /\ result' = NoResult /\ calls' = <<>>
    /\ shown' = {} /\ sidebar' = NoPanel /\ chart' = NoPanel /\ error' = FALSE
    /\ pc' = "load"
    /\ UNCHANGED <<cache, loads, fnvars>>

\* load_detector without @st.cache_resource.
CacheNeverHit == FALSE

\* @st.cache_resource: is the value of load_detector in the store?
CacheHit == cache # NoInstance

\* detector = load_detector(), the value taken from the store.
LoadCached ==
    /\ pc = "load"
    /\ CacheHit
    /\ detector' = cache
    /\ pc' = "widgets"
    /\ UNCHANGED <<cache, loads, runs, user_text, analyze_btn, outputs, ai_prob,
                   human_prob, result, calls, shown, sidebar, chart, error, fnvars>>

\* detector = load_detector(), the body run: pipeline(...) builds a new
\* instance, which the store keeps.
LoadFresh ==
    /\ pc = "load"
    /\ ~CacheHit
    /\ loads' = loads + 1
    /\ cache' = loads + 1
    /\ detector' = loads + 1
    /\ pc' = "widgets"
    /\ UNCHANGED <<runs, user_text, analyze_btn, outputs, ai_prob, human_prob, result,
                   calls, shown, sidebar, chart, error, fnvars>>

\* pipeline(...) raises: nothing is stored, the exception ends the run.
LoadFails ==
    /\ pc = "load"
    /\ ~CacheHit
    /\ error' = TRUE
    /\ pc' = "idle"
    /\ UNCHANGED <<cache, loads, runs, detector, user_text, analyze_btn, outputs, ai_prob,
                   human_prob, result, calls, shown, sidebar, chart, fnvars>>

\* Lines 66-83 and 136: title, caption, text area, button, then the branch.
Widgets ==
    /\ pc = "widgets"
    /\ shown' = shown \cup {"title", "caption", "text_area", "button"}
    /\ pc' = IF analyze_btn /\ StripNonEmpty(user_text) THEN "predict"
             ELSE IF analyze_btn THEN "warn"
             ELSE "idle"
    /\ UNCHANGED <<cache, loads, runs, detector, user_text, analyze_btn, outputs, ai_prob,
                   human_prob, result, calls, sidebar, chart, error, fnvars>>

\* human_prob = ai_prob - 1
HumanProbSwapped(p) == FSub(p, One)

\* human_prob = 1 - ai_prob
HumanProb(p) == FSub(One, p)

\* ai_prob = predict_ai_probability(user_text); human_prob = 1 - ai_prob
Predict(out) ==
    /\ pc = "predict"
    /\ calls' = Append(calls, [fn |-> "detector", instance |-> detector,
                               raised |-> FALSE])
    /\ outputs' = out
    /\ ai_prob' = predict_ai_probability(out)
    /\ human_prob' = HumanProb(predict_ai_probability(out))
    /\ pc' = "estimate"
    /\ UNCHANGED <<cache, loads, runs, detector, user_text, analyze_btn,
                   result, shown, sidebar, chart, error, fnvars>>

\* detector(text) raises inside a try/except that falls back to 0.5.
PredictFailsCaught ==
    /\ pc = "predict"
    /\ calls' = Append(calls, [fn |-> "detector", instance |-> detector,
                               raised |-> TRUE])
    /\ ai_prob' = Half
    /\ human_prob' = HumanProb(Half)
    /\ pc' = "estimate"
    /\ UNCHANGED <<cache, loads, runs, detector, user_text, analyze_btn, outputs,
                   result, shown, sidebar, chart, error, fnvars>>

\* detector(text) raises: nothing catches it, the exception ends the run.
PredictFails ==
    /\ pc = "predict"
    /\ calls' = Append(calls, [fn |-> "detector", instance |-> detector,
                               raised |-> TRUE])
    /\ error' = TRUE
    /\ pc' = "idle"
    /\ UNCHANGED <<cache, loads, runs, detector, user_text, analyze_btn, outputs, ai_prob,
                   human_prob, result, shown, sidebar, chart, fnvars>>

\* confidence, indicators, word_count, margin = estimate_confidence(...)
Estimate ==
    /\ pc = "estimate"
    /\ calls' = Append(calls, [fn |-> "estimate_confidence", instance |-> NoInstance,
                               raised |-> FALSE])
    /\ result' = estimate_confidence(user_text, ai_prob)
    /\ pc' = "render"
    /\ UNCHANGED <<cache, loads, runs, detector, user_text, analyze_btn, outputs, ai_prob,
                   human_prob, shown, sidebar, chart, error, fnvars>>

\* Lines 92-134: the sidebar, the bar chart and the note.  The sidebar
\* metrics and the margin are formatted strings of the values; the record
\* keeps the values handed to the formatting.
Render ==
    /\ pc = "render"
    /\ sidebar' = [ai |-> ai_prob, human |-> human_prob,
                   confidence |-> result.confidence,
                   word_count |-> result.word_count,
                   margin |-> result.margin,
                   marks |-> result.indicators]
    /\ chart' = [AI |-> ai_prob, Human |-> human_prob]
    /\ shown' = shown \cup {"sidebar", "limitations", "bar_chart", "info"}
    /\ pc' = "idle"
    /\ UNCHANGED <<cache, loads, runs, detector, user_text, analyze_btn, outputs, ai_prob,
                   human_prob, result, calls, error, fnvars>>

\* st.warning("Please enter some text before analysis.")
Warn ==
    /\ pc = "warn"
    /\ shown' = shown \cup {"warning"}
    /\ pc' = "idle"
    /\ UNCHANGED <<cache, loads, runs, detector, user_text, analyze_btn, outputs, ai_prob,
                   human_prob, result, calls, sidebar, chart, error, fnvars>>

Init == InitPage /\ InitFn /\ textA = <<>> /\ probA = Half

Next ==
    \/ \E text \in Texts, btn \in BOOLEAN : Interact(text, btn)
    \/ LoadCached
    \/ LoadFresh
    \/ LoadFails
    \/ Widgets
    \/ \E out \in ModelOutputs : Predict(out)
    \/ PredictFails
    \/ Estimate
    \/ Render
    \/ Warn

Spec == Init /\ [][Next]_vars

(***************************************************************************)
(* estimate_confidence called directly.                                    *)
(***************************************************************************)
\* The text of a second call.
PairTexts == {MkText(n, 0) : n \in {99, 100, 150, 199, 200, 250}}

CallOnce ==
    /\ fpc = "args"
    /\ retA' = estimate_confidence(textA, probA)
    /\ fpc' = "one"
    /\ UNCHANGED <<textA, probA, textB, probB, retB, pagevars>>

CallAgain(text, p) ==
    /\ fpc = "one"
    /\ textB' = text /\ probB' = p
    /\ retB' = estimate_confidence(text, p)
    /\ fpc' = "two"
    /\ UNCHANGED <<textA, probA, retA, pagevars>>

\* estimate_confidence(text, 0.5 + d) and estimate_confidence(text, 0.5 - d)
CallMirror(d) ==
    /\ fpc = "args"
    /\ probA' = FAdd(Half, d)
    /\ probB' = FSub(Half, d).mag
    /\ textB' = textA
    /\ retA' = estimate_confidence(textA, FAdd(Half, d))
    /\ retB' = estimate_confidence(textA, FSub(Half, d).mag)
    /\ fpc' = "mirror"
    /\ UNCHANGED <<textA, pagevars>>

InitCalls == InitPage /\ InitFn /\ textA \in Texts /\ probA \in Probs

NextCalls ==
    \/ CallOnce
    \/ \E text \in PairTexts, p \in PairProbs : CallAgain(text, p)
    \/ \E d \in Distances : CallMirror(d)

SpecCalls == InitCalls /\ [][NextCalls]_vars

(***************************************************************************)
(* The vocabulary of the properties: words, margins and thresholds as the  *)
(* real numbers they stand for.                                            *)
(***************************************************************************)
\* Whitespace-delimited tokens, counted at their last character.
TokenCount(text) ==
    Cardinality({i \in 1..Len(text) :
                    /\ text[i] \notin {" ", "\n", "\t"}
                    /\ (i = Len(text) \/ text[i + 1] \in {" ", "\n", "\t"})})

WhitespaceOnly(text) == \A i \in 1..Len(text) : text[i] \in {" ", "\n", "\t"}

\* |p - 0.5| as a real number, without rounding.
Distance(a, b) == IF Lt(a, b) THEN Sub(b, a) ELSE Sub(a, b)

ExactMargin(p) == Distance(p, Half)

\* m < 0.1, m < 0.15 and m < 0.2 for a multiple m of 2^-57: the bound is the
\* least multiple of 2^-57 that is not below the decimal number.
Below010(m) == Lt(m, <<53687091, 53687092>>)
Below015(m) == Lt(m, <<80530636, 214748365>>)
Below020(m) == Lt(m, <<107374182, 107374183>>)

TierRule(words, m) ==
    IF words < 100 \/ Below010(m) THEN "Low Confidence"
    ELSE IF words < 200 \/ Below020(m) THEN "Medium Confidence"
    ELSE "High Confidence"

Rank(tier) ==
    CASE tier = "Low Confidence" -> 1
      [] tier = "Medium Confidence" -> 2
      [] tier = "High Confidence" -> 3

FirstReturned == fpc \in {"one", "two", "mirror"}
BothReturned == fpc \in {"two", "mirror"}

Widgets4 == {"title", "caption", "text_area", "button"}

HasAI(out) == \E i \in 1..Len(out) : out[i].label = "AI"

(***************************************************************************)
(* C1.  estimate_confidence returns the tier of the ordered first-match    *)
(* rule over the number of whitespace-delimited tokens and the margin      *)
(* |ai_probability - 0.5|: Low if words < 100 or margin < 0.1, otherwise   *)
(* Medium if words < 200 or margin < 0.2, otherwise High.                  *)
(***************************************************************************)
C1_Holds(text, p, ret) ==
    LET words == TokenCount(text)
        m     == ExactMargin(p)
    IN  /\ ret.word_count = words
        /\ ret.confidence = TierRule(words, m)
        /\ words < 100 => ret.confidence = "Low Confidence"
        /\ ret.confidence = "High Confidence" <=> (words >= 200 /\ ~Below020(m))

C1_TierRule ==
    /\ FirstReturned => C1_Holds(textA, probA, retA)
    /\ BothReturned => C1_Holds(textB, probB, retB)

\* 200 words at the margin 0.2 (ai_prob 0.3) are High; 99 words at the
\* margin 0.5 are Low.
C1_Witness ==
    /\ fpc = "two"
    /\ TokenCount(textA) = 200 /\ probA = <<161061273, 161061272>>
    /\ retA.margin = Lit020 /\ retA.confidence = "High Confidence"
    /\ TokenCount(textB) = 99 /\ probB = One
    /\ retB.confidence = "Low Confidence"

(***************************************************************************)
(* C2.  estimate_confidence returns exactly three boolean indicators:      *)
(* short text = (words < 100), prediction near 50% = (margin < 0.1), low   *)
(* prediction margin = (margin < 0.15); 150 words with ai_probability 0.62 *)
(* are Medium with the indicators false, false, true.                      *)
(***************************************************************************)
C2_Holds(text, p, ret) ==
    LET words == TokenCount(text)
        m     == ExactMargin(p)
    IN  /\ DOMAIN ret.indicators =
              {"Short text length (<100 words)", "Prediction near 50%",
               "Low prediction margin"}
        /\ \A k \in DOMAIN ret.indicators : ret.indicators[k] \in BOOLEAN
        /\ ret.indicators["Short text length (<100 words)"] = (words < 100)
        /\ ret.indicators["Prediction near 50%"] = Below010(m)
        /\ ret.indicators["Low prediction margin"] = Below015(m)
        /\ (words = 150 /\ p = <<332859965, 118111600>>) =>
              /\ ret.confidence = "Medium Confidence"
              /\ ~ret.indicators["Short text length (<100 words)"]
              /\ ~ret.indicators["Prediction near 50%"]
              /\ ret.indicators["Low prediction margin"]

C2_Indicators ==
    /\ FirstReturned => C2_Holds(textA, probA, retA)
    /\ BothReturned => C2_Holds(textB, probB, retB)

\* Two Medium results, one with the low-margin indicator and one without.
C2_Witness ==
    /\ fpc = "two"
    /\ TokenCount(textA) = 150 /\ probA = <<332859965, 118111600>>
    /\ retA.confidence = "Medium Confidence"
    /\ retA.indicators["Low prediction margin"]
    /\ retB.confidence = "Medium Confidence"
    /\ ~retB.indicators["Low prediction margin"]

(***************************************************************************)
(* C3.  A run with the button pressed and an empty or whitespace-only text *)
(* never calls the classifier, binds no probability and no confidence      *)
(* result, renders no sidebar and no chart, and, when it ends without an   *)
(* exception, shows the warning next to the page's four widgets.           *)
(***************************************************************************)
C3_BlankInputWarns ==
    (analyze_btn /\ WhitespaceOnly(user_text)) =>
        /\ calls = <<>> /\ outputs = <<>>
        /\ ai_prob = NoFloat /\ human_prob = NoDiff /\ result = NoResult
        /\ sidebar = NoPanel /\ chart = NoPanel
        /\ shown \subseteq Widgets4 \cup {"warning"}
        /\ (pc = "idle" /\ ~error) => shown = Widgets4 \cup {"warning"}

C3_Witness ==
    /\ pc = "idle" /\ analyze_btn /\ ~error
    /\ Len(user_text) > 0 /\ WhitespaceOnly(user_text)
    /\ "warning" \in shown

(***************************************************************************)
(* C4.  predict_ai_probability returns the score of the entry labelled     *)
(* "AI" when the model output has one, and 0.5, without raising, when it   *)
(* has none; the result then computed has margin 0 and the tier Low.       *)
(***************************************************************************)
C4_DefaultHalf ==
    ai_prob # NoFloat =>
        /\ HasAI(outputs) =>
              \E i \in 1..Len(outputs) :
                  outputs[i].label = "AI" /\ ai_prob = outputs[i].score
        /\ ~HasAI(outputs) =>
              /\ ai_prob = <<2^28, 0>>
              /\ ~error
              /\ result # NoResult =>
                    /\ result.margin = <<0, 0>>
                    /\ result.confidence = "Low Confidence"

C4_Witness ==
    /\ pc = "render"
    /\ Len(outputs) = 2 /\ ~HasAI(outputs)
    /\ TokenCount(user_text) = 250
    /\ result # NoResult /\ result.confidence = "Low Confidence"

(***************************************************************************)
(* C5, as stated.  For every distance d in [0, 0.5] the calls              *)
(* estimate_confidence(text, 0.5 + d) and estimate_confidence(text,        *)
(* 0.5 - d) return the same margin, tier, indicators and word count.       *)
(***************************************************************************)
C5_MirrorAnyDistance == fpc = "mirror" => retA = retB

(***************************************************************************)
(* C5, amended.  For probabilities p >= 0.5 >= q that are exact mirror     *)
(* images, p - 0.5 = 0.5 - q, estimate_confidence(text, p) and             *)
(* estimate_confidence(text, q) return the same margin, tier, indicators   *)
(* and word count.                                                         *)
(***************************************************************************)
ExactMirror(p, q) == Le(Half, p) /\ Le(q, Half) /\ Sub(p, Half) = Sub(Half, q)

C5_MirrorExact ==
    (BothReturned /\ textA = textB /\ ExactMirror(probA, probB)) => retA = retB

C5_Witness ==
    /\ fpc = "mirror" /\ ExactMirror(probA, probB) /\ probA # probB
    /\ TokenCount(textA) = 250
    /\ retA.confidence = "High Confidence" /\ retB.confidence = "High Confidence"

(***************************************************************************)
(* C6.  The classifier is built at most once in the process, by the first  *)
(* run that gets past load_detector(); every run past that line and every  *)
(* call of the detector uses that first instance, which the store keeps.   *)
(***************************************************************************)
C6_LoadedOnce ==
    /\ loads \in {0, 1}
    /\ cache = loads
    /\ detector \in {NoInstance, cache}
    /\ pc \notin {"idle", "load"} => (loads = 1 /\ detector = 1)
    /\ \A i \in 1..Len(calls) :
          calls[i].fn = "detector" => calls[i].instance = 1

C6_Witness ==
    /\ runs >= 3 /\ loads = 1
    /\ pc = "estimate" /\ Len(calls) = 1 /\ calls[1].instance = 1

(***************************************************************************)
(* C7.  Whenever a run has a result, human_prob is 1 - ai_prob (the        *)
(* binary64 value nearest to it), lies in [0, 1], and human_prob + ai_prob *)
(* evaluates to exactly 1.0; the chart shows these two values.             *)
(***************************************************************************)
C7_Complement ==
    /\ human_prob # NoDiff =>
          /\ ~human_prob.neg
          /\ Le(Zero, human_prob.mag) /\ Le(human_prob.mag, One)
          /\ Le(Distance(human_prob.mag, Sub(One, ai_prob)), <<0, 8>>)
          /\ FAdd(human_prob.mag, ai_prob) = One
    /\ chart # NoPanel =>
          /\ human_prob # NoDiff
          /\ chart.AI = ai_prob /\ chart.Human = human_prob
          /\ sidebar.ai = ai_prob /\ sidebar.human = human_prob

\* ai_prob 0.3, where 1 - 0.3 is rounded to 0.7.
C7_Witness ==
    /\ chart # NoPanel
    /\ ai_prob = <<161061273, 161061272>>
    /\ human_prob.mag = <<375809638, 107374176>>
    /\ human_prob.mag # Sub(One, ai_prob)

(***************************************************************************)
(* C8.  A detector call that raises ends the run with the exception: no    *)
(* confidence estimate is made, no probability is bound, no sidebar, chart *)
(* or warning is shown.  The detector is called before the estimator, and  *)
(* both before anything of the result is rendered.                         *)
(***************************************************************************)
C8_FailurePropagates ==
    /\ \A i \in 1..Len(calls) :
          calls[i].raised =>
              /\ error /\ pc = "idle"
              /\ Len(calls) = 1
              /\ ai_prob = NoFloat /\ human_prob = NoDiff /\ result = NoResult
              /\ sidebar = NoPanel /\ chart = NoPanel
              /\ shown = Widgets4
    /\ \A i \in 1..Len(calls) :
          calls[i].fn = "estimate_confidence" =>
              i = 2 /\ calls[1].fn = "detector" /\ ~calls[1].raised
    /\ (sidebar # NoPanel \/ chart # NoPanel \/ shown \cap {"sidebar", "bar_chart"} # {}) =>
          /\ Len(calls) = 2
          /\ calls[1].fn = "detector" /\ calls[2].fn = "estimate_confidence"

C8_Witness ==
    /\ error /\ analyze_btn /\ ~WhitespaceOnly(user_text)
    /\ Len(calls) = 1 /\ calls[1].fn = "detector" /\ calls[1].raised
    /\ pc = "idle"

(***************************************************************************)
(* C9.  The tier is monotone: of two calls, the one with no more words and *)
(* no larger margin never has the higher tier.                             *)
(***************************************************************************)
C9_Leq(r1, r2) ==
    (r1.word_count <= r2.word_count /\ Le(r1.margin, r2.margin))
        => Rank(r1.confidence) <= Rank(r2.confidence)

C9_Monotone == BothReturned => (C9_Leq(retA, retB) /\ C9_Leq(retB, retA))

\* More words and a larger margin raise Medium to High.
C9_Witness ==
    /\ fpc = "two"
    /\ retA.word_count < retB.word_count /\ Lt(retA.margin, retB.margin)
    /\ retA.confidence = "Medium Confidence"
    /\ retB.confidence = "High Confidence"

(***************************************************************************)
(* C10.  Tier and indicators agree: the tier is Low exactly when the short *)
(* text or the near-50% indicator is set; near-50% implies low margin; in  *)
(* the tier High all three indicators are false.                           *)
(***************************************************************************)
C10_Holds(ret) ==
    /\ ret.confidence = "Low Confidence"
         <=> (ret.indicators["Short text length (<100 words)"]
              \/ ret.indicators["Prediction near 50%"])
    /\ ret.indicators["Prediction near 50%"] => ret.indicators["Low prediction margin"]
    /\ ret.confidence = "High Confidence" =>
          \A k \in DOMAIN ret.indicators : ~ret.indicators[k]

C10_Consistent ==
    /\ FirstReturned => C10_Holds(retA)
    /\ BothReturned => C10_Holds(retB)

\* 99 words at ai_prob 0.5: Low with all three indicators set, next to a
\* High result.
C10_Witness ==
    /\ fpc = "two"
    /\ retA.confidence = "High Confidence"
    /\ retB.word_count = 99 /\ probB = Half
    /\ retB.confidence = "Low Confidence"
    /\ \A k \in DOMAIN retB.indicators : retB.indicators[k]
====
